---- MODULE Spec2Model ----
(***************************************************************************)
(* A model of cache_dit/metrics/metrics.py: the pairing-and-aggregation    *)
(* engine (compute_dir_metric, _fetch_video_frames, compute_video_metric)  *)
(* and the command-line entrypoint that runs the requested metrics and     *)
(* renders the summary.                                                    *)
(*                                                                         *)
(* Spec     one call of compute_dir_metric or compute_video_metric         *)
(* SpecRun  one run of entrypoint()                                        *)
(***************************************************************************)
EXTENDS Integers, Sequences, FiniteSets, TLC

(* ----------------------------- bounds ---------------------------------- *)
\* longest directory listing on either side
MaxFiles == 3
\* most frames a decoder reports or delivers
MaxFrames == 2

(* --------------------------- value domains ----------------------------- *)
\* float("inf"), the degenerate score; every finite score of the model is smaller
PosInf == 1000
FiniteScores == {0, 2}
\* what a scoring function (compute_psnr_file, ...) can return on decodable units
Scores == FiniteScores \cup {PosInf}

\* A listed file is <<sub-directory, basename>>, relative to the directory that
\* rglob walked; sorted() orders the full paths, i.e. lexicographically.
ListedPaths == {<<0, 1>>, <<0, 2>>, <<1, 1>>, <<1, 2>>}

\* os.path.basename of a listed file
BasenameWholePath(p) == p
basename(p) == p[2]

PathLess(p, q) == p[1] < q[1] \/ (p[1] = q[1] /\ p[2] < q[2])

\* the results of sorted([... rglob ...]): strictly increasing lists of files
SortedLists ==
    {l \in UNION {[1..n -> ListedPaths] : n \in 0..MaxFiles} :
        \A j \in 1..(Len(l) - 1) : PathLess(l[j], l[j + 1])}

Min(a, b) == IF a <= b THEN a ELSE b

\* (None, None)
NoneNone == <<>>
\* (average_metric, n): the mean is kept exact, as the fraction num / den
Mean(total, count) == [num |-> total, den |-> count]

VARIABLES
    fn,                 \* the function called
    true_kind,          \* what the true-side argument is: "array", "file", "dir", "absent"
    test_kind,
    true_files,         \* sorted listing of the true directory
    test_files,
    pc,                 \* position in the function
    i,                  \* loop index (0-based, as in the code)
    true_selected,      \* image_true_files_selected / video_true_files_selected
    test_selected,
    cap1,               \* the decoder of the true video
    cap2,
    open_handles,       \* decoders opened and not yet released
    frame_count,
    fetched,            \* valid_frames of the running _fetch_video_frames
    video_true_frames,
    video_test_frames,
    valid_frames,
    total_metric,
    valid,              \* valid_files / valid_frames of the aggregation loop
    scored,             \* how often the scoring function returned each score
    result

callVars == <<fn, true_kind, test_kind, true_files, test_files, pc, i, true_selected,
          test_selected, cap1, cap2, open_handles, frame_count, fetched,
          video_true_frames, video_test_frames, valid_frames, total_metric, valid,
          scored, result>>

VARIABLES
    args,               \* the parsed command line
    img_source_items,   \* what os.listdir(args.img_source_dir) holds
    video_source_files, \* the video files below args.video_source_dir
    pc_run,             \* position in entrypoint()
    FID,                \* whether FrechetInceptionDistance(...) was constructed
    io,                 \* the kinds of file access and computation done so far
    mode,               \* the branch taken at lines 586, 623, 668
    targets,            \* directories / video_source_selected
    metric_idx,         \* index of the metric of the running loop
    target_idx,         \* index of the target of the running loop
    step_idx,           \* index of the computation inside _run_metric
    METRICS_META,       \* the result mapping, in insertion order
    calls,              \* the comparisons _run_metric has started
    errors,             \* number of logger.error calls of entrypoint
    rendered,           \* the summary blocks printed
    exc,                \* the exception that ended the run, if any
    log_calls           \* the _logging_msg calls made so far, with what each recorded

runVars == <<args, img_source_items, video_source_files, pc_run, FID, io, mode, targets,
             metric_idx, target_idx, step_idx, METRICS_META, calls, errors, rendered, exc,
             log_calls>>

vars == <<callVars, runVars>>

\* None, and a path: what it is on disk, its parent and its basename (a string
\* is a sequence of tokens)
None == [kind |-> "None", dir |-> "", base |-> <<>>]
Path(kind, dir, base) == [kind |-> kind, dir |-> dir, base |-> base]

NoArgs ==
    [metrics |-> <<>>, img_true |-> None, img_test |-> None, video_true |-> None,
     video_test |-> None, img_source_dir |-> None, ref_img_dir |-> None,
     video_source_dir |-> None, ref_video |-> None]

\* entrypoint() is not running
RunIdle ==
    /\ args = NoArgs
    /\ img_source_items = {}
    /\ video_source_files = {}
    /\ pc_run = "idle"
    /\ FID = FALSE
    /\ io = {}
    /\ mode = "none"
    /\ targets = <<>>
    /\ metric_idx = 0
    /\ target_idx = 0
    /\ step_idx = 0
    /\ METRICS_META = <<>>
    /\ calls = <<>>
    /\ errors = 0
    /\ rendered = <<>>
    /\ exc = "none"
    /\ log_calls = {}

NoCap == [opened |-> FALSE, released |-> FALSE, total |-> 0]

ImageKinds == {"array", "file", "dir"}
VideoKinds == {"file", "dir", "absent"}

Init ==
    /\ fn \in {"compute_dir_metric", "compute_video_metric"}
    /\ true_kind \in (IF fn = "compute_dir_metric" THEN ImageKinds ELSE VideoKinds)
    /\ test_kind \in (IF fn = "compute_dir_metric" THEN ImageKinds ELSE VideoKinds)
    /\ true_files \in (IF true_kind = "dir" /\ test_kind = "dir" THEN SortedLists ELSE {<<>>})
    /\ test_files \in (IF true_kind = "dir" /\ test_kind = "dir" THEN SortedLists ELSE {<<>>})
    /\ pc = "call"
    /\ i = 0
    /\ true_selected = <<>>
    /\ test_selected = <<>>
    /\ cap1 = NoCap
    /\ cap2 = NoCap
    /\ open_handles = 0
    /\ frame_count = 0
    /\ fetched = 0
    /\ video_true_frames = <<>>
    /\ video_test_frames = <<>>
    /\ valid_frames = 0
    /\ total_metric = 0
    /\ valid = 0
    /\ scored = [s \in Scores |-> 0]
    /\ result = NoneNone
    /\ RunIdle

(* ------------------------- compute_dir_metric -------------------------- *)
\* metric != float("inf")
CountsEveryScore(metric) == TRUE
IsValidScore(metric) == metric # PosInf

\* the array and the single-file branches: return compute_file_func(...), 1
DirUnit ==
    /\ pc = "call"
    /\ fn = "compute_dir_metric"
    /\ \/ true_kind = "array" \/ test_kind = "array"
       \/ true_kind # "dir" \/ test_kind # "dir"
    /\ IF "dir" \in {true_kind, test_kind}
       THEN \* cv2.imread of a directory gives no image: the scoring function raises
            /\ pc' = "raised"
            /\ UNCHANGED <<scored, result>>
       ELSE \E metric \in Scores :
            /\ scored' = [scored EXCEPT ![metric] = @ + 1]
            /\ result' = <<Mean(metric, 1), 1>>
            /\ pc' = "done"
    /\ UNCHANGED <<fn, true_kind, test_kind, true_files, test_files, i, true_selected,
                   test_selected, cap1, cap2, open_handles, frame_count, fetched,
                   video_true_frames, video_test_frames, valid_frames, total_metric,
                   valid>>
    /\ UNCHANGED runVars

\* both arguments are directories: list, sort, and enter the selection loop
DirList ==
    /\ pc = "call"
    /\ fn = "compute_dir_metric"
    /\ true_kind = "dir" /\ test_kind = "dir"
    /\ pc' = "select"
    /\ i' = 0
    /\ UNCHANGED <<fn, true_kind, test_kind, true_files, test_files, true_selected,
                   test_selected, cap1, cap2, open_handles, frame_count, fetched,
                   video_true_frames, video_test_frames, valid_frames, total_metric,
                   valid, scored, result>>
    /\ UNCHANGED runVars

\* one iteration of: for i in range(min(len(true), len(test)))
SelectStep ==
    /\ pc = "select"
    /\ i < Min(Len(true_files), Len(test_files))
    /\ LET selected_true == true_files[i + 1]
           selected_test == test_files[i + 1]
       IN  IF basename(selected_test) = basename(selected_true)
           THEN /\ true_selected' = Append(true_selected, selected_true)
                /\ test_selected' = Append(test_selected, selected_test)
           ELSE UNCHANGED <<true_selected, test_selected>>
    /\ i' = i + 1
    /\ UNCHANGED <<fn, true_kind, test_kind, true_files, test_files, pc, cap1, cap2,
                   open_handles, frame_count, fetched, video_true_frames,
                   video_test_frames, valid_frames, total_metric, valid, scored, result>>
    /\ UNCHANGED runVars

\* the loop is over: no pair at all returns (None, None)
SelectDone ==
    /\ pc = "select"
    /\ i = Min(Len(true_files), Len(test_files))
    /\ IF Len(true_selected) = 0
       THEN /\ result' = NoneNone
            /\ pc' = "done"
       ELSE /\ result' = result
            /\ pc' = IF fn = "compute_dir_metric" THEN "aggregate" ELSE "fetch_open"
    /\ i' = 0
    /\ UNCHANGED <<fn, true_kind, test_kind, true_files, test_files, true_selected,
                   test_selected, cap1, cap2, open_handles, frame_count, fetched,
                   video_true_frames, video_test_frames, valid_frames, total_metric,
                   valid, scored>>
    /\ UNCHANGED runVars

\* the units the aggregation loop walks: matched files, or aligned frames
Units ==
    IF fn = "compute_dir_metric"
    THEN Len(true_selected)
    ELSE Min(Len(video_true_frames), Len(video_test_frames))

\* one iteration of the scoring loop
AggStep ==
    /\ pc = "aggregate"
    /\ i < Units
    /\ \E metric \in Scores :
        /\ scored' = [scored EXCEPT ![metric] = @ + 1]
        /\ IF IsValidScore(metric)
           THEN /\ total_metric' = total_metric + metric
                /\ valid' = valid + 1
           ELSE UNCHANGED <<total_metric, valid>>
    /\ i' = i + 1
    /\ UNCHANGED <<fn, true_kind, test_kind, true_files, test_files, pc, true_selected,
                   test_selected, cap1, cap2, open_handles, frame_count, fetched,
                   video_true_frames, video_test_frames, valid_frames, result>>
    /\ UNCHANGED runVars

\* if valid > 0: return average, valid; else: return None, None
AggDone ==
    /\ pc = "aggregate"
    /\ i = Units
    /\ result' = IF valid > 0 THEN <<Mean(total_metric, valid), valid>> ELSE NoneNone
    /\ pc' = "done"
    /\ UNCHANGED <<fn, true_kind, test_kind, true_files, test_files, i, true_selected,
                   test_selected, cap1, cap2, open_handles, frame_count, fetched,
                   video_true_frames, video_test_frames, valid_frames, total_metric,
                   valid, scored>>
    /\ UNCHANGED runVars

(* --------------------------- _fetch_video_frames ----------------------- *)
\* frames are opaque to the engine: a list of n decoded frames
Frames(n) == [k \in 1..n |-> "frame"]

Opened(cap) == IF cap.opened /\ ~cap.released THEN 1 ELSE 0

\* what the caller does with the triple that _fetch_video_frames returns
\* (lines 215-220 for a pair of files, lines 271-279 inside the directory loop)
FetchReturn(n) ==
    IF true_kind = "file"
    THEN /\ video_true_frames' = Frames(n)
         /\ video_test_frames' = Frames(n)
         /\ valid_frames' = n
         /\ i' = i
         /\ pc' = "check"
    ELSE /\ video_true_frames' = video_true_frames \o Frames(n)
         /\ video_test_frames' = video_test_frames \o Frames(n)
         /\ valid_frames' = valid_frames + n
         /\ i' = i + 1
         /\ pc' = IF i + 1 < Len(true_selected) THEN "fetch_open" ELSE "check"

\* what release() does to a decoder
Release(cap) == [cap EXCEPT !.released = TRUE]

\* cap1 = cv2.VideoCapture(video_true); cap2 = cv2.VideoCapture(video_test);
\* if either did not open: return [], [], 0; else read CAP_PROP_FRAME_COUNT.
\* The early return calls no release(): whether the decoder that did open is
\* closed then is left to the finalizer of the runtime, so both outcomes occur.
FetchOpen ==
    /\ pc = "fetch_open"
    /\ \E o1 \in BOOLEAN, o2 \in BOOLEAN, t1 \in 0..MaxFrames, t2 \in 0..MaxFrames :
        LET c1 == [opened |-> o1, released |-> FALSE, total |-> IF o1 THEN t1 ELSE 0]
            c2 == [opened |-> o2, released |-> FALSE, total |-> IF o2 THEN t2 ELSE 0]
        IN  IF ~o1 \/ ~o2
            THEN /\ t1 = 0 /\ t2 = 0
                 /\ \E finalized \in BOOLEAN :
                     /\ cap1' = IF finalized THEN Release(c1) ELSE c1
                     /\ cap2' = IF finalized THEN Release(c2) ELSE c2
                 /\ open_handles' = open_handles + Opened(cap1') + Opened(cap2')
                 /\ FetchReturn(0)
                 /\ UNCHANGED <<frame_count, fetched>>
            ELSE /\ cap1' = c1
                 /\ cap2' = c2
                 /\ open_handles' = open_handles + 2
                 /\ frame_count' = Min(c1.total, c2.total)
                 /\ fetched' = 0
                 /\ pc' = "fetch_read"
                 /\ UNCHANGED <<i, video_true_frames, video_test_frames, valid_frames>>
    /\ UNCHANGED <<fn, true_kind, test_kind, true_files, test_files, true_selected,
                   test_selected, total_metric, valid, scored, result>>
    /\ UNCHANGED runVars

\* an iteration of `while True` in which both read() calls deliver a frame;
\* a decoder delivers MaxFrames frames at most
FetchRead ==
    /\ pc = "fetch_read"
    /\ fetched < MaxFrames
    /\ fetched' = fetched + 1
    /\ UNCHANGED <<fn, true_kind, test_kind, true_files, test_files, pc, i, true_selected,
                   test_selected, cap1, cap2, open_handles, frame_count,
                   video_true_frames, video_test_frames, valid_frames, total_metric,
                   valid, scored, result>>
    /\ UNCHANGED runVars

\* the iteration in which a read() fails: break, release both, return
FetchBreak ==
    /\ pc = "fetch_read"
    /\ \E ret1 \in BOOLEAN, ret2 \in BOOLEAN : ~ret1 \/ ~ret2
    /\ cap1' = Release(cap1)
    /\ cap2' = Release(cap2)
    /\ open_handles' = open_handles - (Opened(cap1) - Opened(cap1'))
                                    - (Opened(cap2) - Opened(cap2'))
    /\ FetchReturn(IF fetched <= 0 THEN 0 ELSE fetched)
    /\ UNCHANGED <<fn, true_kind, test_kind, true_files, test_files, true_selected,
                   test_selected, frame_count, fetched, total_metric, valid, scored,
                   result>>
    /\ UNCHANGED runVars

(* -------------------------- compute_video_metric ----------------------- *)
\* isfile/isfile: fetch the pair; isdir/isdir: list and select; else ValueError
VideoStart ==
    /\ pc = "call"
    /\ fn = "compute_video_metric"
    /\ pc' = IF true_kind = "file" /\ test_kind = "file" THEN "fetch_open"
             ELSE IF true_kind = "dir" /\ test_kind = "dir" THEN "select"
             ELSE "raised"
    /\ i' = 0
    /\ UNCHANGED <<fn, true_kind, test_kind, true_files, test_files, true_selected,
                   test_selected, cap1, cap2, open_handles, frame_count, fetched,
                   video_true_frames, video_test_frames, valid_frames, total_metric,
                   valid, scored, result>>
    /\ UNCHANGED runVars

\* if valid_frames <= 0: return None, None; else reset the counter and aggregate.
\* `valid` is the counter after the reset; valid_frames keeps the fetched count.
VideoCheck ==
    /\ pc = "check"
    /\ IF valid_frames <= 0
       THEN /\ result' = NoneNone
            /\ pc' = "done"
       ELSE /\ result' = result
            /\ pc' = "aggregate"
    /\ total_metric' = 0
    /\ valid' = 0
    /\ i' = 0
    /\ UNCHANGED <<fn, true_kind, test_kind, true_files, test_files, true_selected,
                   test_selected, cap1, cap2, open_handles, frame_count, fetched,
                   video_true_frames, video_test_frames, valid_frames, scored>>
    /\ UNCHANGED runVars

Next ==
    \/ DirUnit
    \/ DirList
    \/ SelectStep
    \/ SelectDone
    \/ AggStep
    \/ AggDone
    \/ VideoStart
    \/ FetchOpen
    \/ FetchRead
    \/ FetchBreak
    \/ VideoCheck

Spec == Init /\ [][Next]_vars

(* ============================== entrypoint ============================= *)
\* total number of metric computations one run may plan
MaxComputes == 4

METRICS_CHOICES == <<"psnr", "ssim", "mse", "fid", "all">>
MetricNames == {METRICS_CHOICES[j] : j \in 1..Len(METRICS_CHOICES)}

\* args.metrics (nargs="+", choices=METRICS_CHOICES): one name, or two names
\* (a name twice included) that start with "psnr" or "all"
MetricLists ==
    {<<a>> : a \in MetricNames} \cup {<<a, b>> : a \in {"psnr", "all"}, b \in MetricNames}

Elements(seq) == {seq[j] : j \in 1..Len(seq)}

\* os.path.exists, isdir, isfile, basename
exists(p) == p.kind \in {"file", "dir"}
isdir(p) == p.kind = "dir"
isfile(p) == p.kind = "file"
PathBasename(p) == p.base

\* what a path given on the command line can be on disk
PathKinds == {"absent", "file", "dir"}
ArgPaths(dir, base) == {None} \cup {Path(kd, dir, base) : kd \in PathKinds}

\* basenames of compared paths that hold a metric name, the letters "vs" or a comma
TrueNames == {<<"A">>, <<"can", "vs", "as">>}
TestNames == {<<"B">>, <<"psnr">>, <<"B", ",", "1">>}

\* the entries a source directory of images can hold, and the video files that
\* can lie below a source directory of videos
ItemUniverse ==
    {Path("dir", "S/", <<"R">>), Path("dir", "S/", <<"X">>), Path("dir", "S/", <<"Y">>),
     Path("file", "S/", <<"F">>)}
VideoUniverse ==
    {Path("file", "V/", <<"r">>), Path("file", "V/", <<"x">>), Path("file", "V/", <<"y">>),
     Path("file", "V/s/", <<"x">>)}

\* sorted(): the listed paths in the order of their full path strings
NameOrder ==
    << <<"S/", <<"F">> >>, <<"S/", <<"R">> >>, <<"S/", <<"X">> >>, <<"S/", <<"Y">> >>,
       <<"V/", <<"r">> >>, <<"V/s/", <<"x">> >>, <<"V/", <<"x">> >>,
       <<"V/", <<"y">> >> >>
PathRank(p) == CHOOSE j \in 1..Len(NameOrder) : NameOrder[j] = <<p.dir, p.base>>

RECURSIVE SortPaths(_)
SortPaths(S) ==
    IF S = {} THEN <<>>
    ELSE LET x == CHOOSE y \in S : \A z \in S : PathRank(y) <= PathRank(z)
         IN  <<x>> \o SortPaths(S \ {x})

\* the `if metric == ... or metric == "all"` chain of _run_metric, in its order
Applicable(metric) ==
    IF metric = "all" THEN <<"psnr", "ssim", "mse", "fid">> ELSE <<metric>>

is_image_1vsN_pattern == args.img_source_dir # None /\ args.ref_img_dir # None
is_video_1vsN_pattern == args.video_source_dir # None /\ args.ref_video # None

\* if os.path.basename(item_path) == os.path.basename(ref): continue
ExcludesNothing(item, ref) == FALSE
ExcludedByRef(item, ref) == PathBasename(item) = PathBasename(ref)

\* lines 595-608: the sub-directories of the source directory, without the reference
directories ==
    SortPaths({item \in img_source_items :
                  isdir(item) /\ ~ExcludedByRef(item, args.ref_img_dir)})

\* lines 632-653: the videos below the source directory, without the reference
video_source_selected ==
    SortPaths({file \in video_source_files : ~ExcludedByRef(file, args.ref_video)})

RECURSIVE SumLen(_)
SumLen(ms) == IF ms = <<>> THEN 0 ELSE Len(Applicable(Head(ms))) + SumLen(Tail(ms))

\* the computations a run would make if every comparison went through
PlannedComputes ==
    SumLen(args.metrics) *
        (IF is_image_1vsN_pattern THEN Len(directories)
         ELSE IF is_video_1vsN_pattern THEN Len(video_source_selected)
         ELSE (IF args.img_true # None /\ args.img_test # None THEN 1 ELSE 0)
            + (IF args.video_true # None /\ args.video_test # None THEN 1 ELSE 0))

\* no call of compute_dir_metric / compute_video_metric is being followed
CallIdle ==
    /\ fn = "none"
    /\ true_kind = "none"
    /\ test_kind = "none"
    /\ true_files = <<>>
    /\ test_files = <<>>
    /\ pc = "idle"
    /\ i = 0
    /\ true_selected = <<>>
    /\ test_selected = <<>>
    /\ cap1 = NoCap
    /\ cap2 = NoCap
    /\ open_handles = 0
    /\ frame_count = 0
    /\ fetched = 0
    /\ video_true_frames = <<>>
    /\ video_test_frames = <<>>
    /\ valid_frames = 0
    /\ total_metric = 0
    /\ valid = 0
    /\ scored = [s \in Scores |-> 0]
    /\ result = NoneNone

\* get_args(): a single comparison, the 1-vs-N image pattern, the 1-vs-N video
\* pattern, both patterns at once, or a single comparison of two existing images
\* or videos of any names; no perf log is given. args.summary is read at line 678
\* only, and the model draws it there (AfterLoops).
InitRun ==
    /\ CallIdle
    /\ \E ms \in MetricLists :
        \/ \E a \in ArgPaths("", <<"A">>), b \in ArgPaths("", <<"B">>) \ {None},
              c \in ArgPaths("", <<"A">>), d \in ArgPaths("", <<"B">>) \ {None} :
            /\ args = [NoArgs EXCEPT !.metrics = ms, !.img_true = a,
                                     !.img_test = b, !.video_true = c, !.video_test = d]
            /\ img_source_items = {}
            /\ video_source_files = {}
        \/ \E src \in ArgPaths("", <<"S">>),
              ref \in ArgPaths("S/", <<"R">>) \cup {Path("dir", "S/R/", <<>>)},
              items \in SUBSET ItemUniverse :
            /\ src # None /\ ref # None
            /\ args = [NoArgs EXCEPT !.metrics = ms,
                                     !.img_source_dir = src, !.ref_img_dir = ref]
            /\ img_source_items = IF isdir(src) THEN items ELSE {}
            /\ video_source_files = {}
        \/ \E src \in ArgPaths("", <<"V">>), ref \in ArgPaths("V/", <<"r">>),
              files \in SUBSET VideoUniverse :
            /\ src # None /\ ref # None
            /\ args = [NoArgs EXCEPT !.metrics = ms,
                                     !.video_source_dir = src, !.ref_video = ref]
            /\ img_source_items = {}
            /\ video_source_files = IF isdir(src) THEN files ELSE {}
        \/ /\ args = [NoArgs EXCEPT !.metrics = ms,
                                    !.img_source_dir = Path("dir", "", <<"S">>),
                                    !.ref_img_dir = Path("dir", "S/", <<"R">>),
                                    !.video_source_dir = Path("dir", "", <<"V">>),
                                    !.ref_video = Path("file", "V/", <<"r">>)]
           /\ img_source_items = {Path("dir", "S/", <<"R">>), Path("dir", "S/", <<"X">>)}
           /\ video_source_files = {Path("file", "V/", <<"r">>), Path("file", "V/", <<"x">>)}
        \/ \E tn \in TrueNames, sn \in TestNames, kd \in {"file", "dir"}, video \in BOOLEAN :
            /\ args = IF video
                      THEN [NoArgs EXCEPT !.metrics = ms, !.video_true = Path(kd, "", tn),
                                          !.video_test = Path(kd, "", sn)]
                      ELSE [NoArgs EXCEPT !.metrics = ms, !.img_true = Path(kd, "", tn),
                                          !.img_test = Path(kd, "", sn)]
            /\ img_source_items = {}
            /\ video_source_files = {}
    /\ PlannedComputes <= MaxComputes
    /\ pc_run = "start"
    /\ FID = FALSE
    /\ io = {}
    /\ mode = "none"
    /\ targets = <<>>
    /\ metric_idx = 0
    /\ target_idx = 0
    /\ step_idx = 0
    /\ METRICS_META = <<>>
    /\ calls = <<>>
    /\ errors = 0
    /\ rendered = <<>>
    /\ exc = "none"
    /\ log_calls = {}

\* lines 476-488: parse the arguments, construct the FID collaborator if asked for
RunStart ==
    /\ pc_run = "start"
    /\ FID' = ("all" \in Elements(args.metrics) \/ "fid" \in Elements(args.metrics))
    /\ pc_run' = "dispatch"
    /\ UNCHANGED <<args, img_source_items, video_source_files, io, mode, targets,
                   metric_idx, target_idx, step_idx, METRICS_META, calls, errors,
                   rendered, exc, log_calls>>
    /\ UNCHANGED callVars

\* an exception escapes entrypoint()
Raise(e) ==
    /\ pc_run' = "crashed"
    /\ exc' = e

\* the first _run_metric call of the loops
StartLoops(md, tg) ==
    /\ mode' = md
    /\ targets' = tg
    /\ metric_idx' = 1
    /\ target_idx' = 1
    /\ step_idx' = 1
    /\ pc_run' = "img_enter"
    /\ UNCHANGED <<errors, exc>>

\* `return` out of entrypoint(): the summary is not reached
Return(logged) ==
    /\ errors' = errors + logged
    /\ pc_run' = "exit"
    /\ UNCHANGED <<mode, targets, metric_idx, target_idx, step_idx, exc>>

\* lines 584-676 up to the first _run_metric call: the assertion, then the
\* existence checks and the listing of the pattern that was asked for
RunDispatch ==
    /\ pc_run = "dispatch"
    /\ IF is_image_1vsN_pattern /\ is_video_1vsN_pattern
       THEN /\ Raise("AssertionError")
            /\ UNCHANGED <<io, mode, targets, metric_idx, target_idx, step_idx, errors>>
       ELSE IF is_image_1vsN_pattern
       THEN /\ io' = io \cup {"exists"}
                    \cup (IF exists(args.img_source_dir) /\ exists(args.ref_img_dir)
                          THEN {"listdir"} ELSE {})
            /\ IF ~exists(args.img_source_dir) \/ ~exists(args.ref_img_dir)
               THEN Return(1)
               ELSE IF ~isdir(args.img_source_dir)
               THEN /\ Raise("NotADirectoryError")
                    /\ UNCHANGED <<mode, targets, metric_idx, target_idx, step_idx, errors>>
               ELSE IF Len(directories) = 0
               THEN Return(0)
               ELSE StartLoops("img1vsN", directories)
       ELSE IF is_video_1vsN_pattern
       THEN /\ io' = io \cup {"exists"}
                    \cup (IF exists(args.video_source_dir) /\ exists(args.ref_video)
                          THEN {"rglob"} ELSE {})
            /\ IF ~exists(args.video_source_dir) \/ ~exists(args.ref_video)
               THEN Return(1)
               ELSE IF Len(video_source_selected) = 0
               THEN Return(0)
               ELSE StartLoops("video1vsN", video_source_selected)
       ELSE /\ io' = io
            /\ StartLoops("single", <<None>>)
    /\ UNCHANGED <<args, img_source_items, video_source_files, FID, METRICS_META, calls,
                   rendered, log_calls>>
    /\ UNCHANGED callVars

(* ------------------------------ _run_metric ---------------------------- *)
\* the arguments of the running _run_metric call (lines 617-621, 662-666, 670-676)
CallMetric == args.metrics[metric_idx]
CallImgTrue ==
    IF mode = "img1vsN" THEN args.ref_img_dir
    ELSE IF mode = "single" THEN args.img_true ELSE None
CallImgTest ==
    IF mode = "img1vsN" THEN targets[target_idx]
    ELSE IF mode = "single" THEN args.img_test ELSE None
CallVideoTrue ==
    IF mode = "video1vsN" THEN args.ref_video
    ELSE IF mode = "single" THEN args.video_true ELSE None
CallVideoTest ==
    IF mode = "video1vsN" THEN targets[target_idx]
    ELSE IF mode = "single" THEN args.video_test ELSE None

\* (mean, n) pairs the aggregation of Spec can return, and (score, 1) of a single pair
MeanOutcomesZeroValid == {<<1, 1>>, <<2, 2>>, <<0, 0>>}
MeanOutcomes == {<<1, 1>>, <<2, 2>>}
UnitOutcomes == {<<1, 1>>, <<3, 1>>, <<PosInf, 1>>}
\* FID.compute_fid and FID.compute_video_fid: (value, count), or nothing to report
FidOutcomes == {NoneNone} \cup MeanOutcomes

\* the scoring function gets a directory where it reads an image: it raises
ImageRaises(name, tp, sp) == name # "fid" /\ (isdir(tp) # isdir(sp))
ImageOutcomes(name, tp, sp) ==
    IF name = "fid" THEN FidOutcomes
    ELSE IF isdir(tp) /\ isdir(sp) THEN {NoneNone} \cup MeanOutcomes
    ELSE UnitOutcomes

\* raise ValueError("video_true and video_test must be files or dirs.")
VideoRaises(name, tp, sp) ==
    name # "fid" /\ ~(isfile(tp) /\ isfile(sp)) /\ ~(isdir(tp) /\ isdir(sp))
VideoOutcomes(name, tp, sp) ==
    IF name = "fid" THEN FidOutcomes ELSE {NoneNone} \cup MeanOutcomes

\* name.upper()
Upper(name) ==
    CASE name = "psnr" -> "PSNR"
      [] name = "ssim" -> "SSIM"
      [] name = "mse" -> "MSE"
      [] name = "fid" -> "FID"
      [] OTHER -> name

\* f"{n}" and f"{value:.5f}"
Digits == <<"0", "1", "2", "3", "4", "5", "6", "7", "8", "9">>
NumStr(n) == Digits[n + 1]
ValStr(value) ==
    IF value = PosInf THEN "inf"
    ELSE <<"0.00000", "1.00000", "2.00000", "3.00000">>[value + 1]

\* the message of _logging_msg: the key of the result
LabelKey(count_tag, tp, sp, value, name, n) ==
    PathBasename(tp) \o <<" vs ">> \o PathBasename(sp)
        \o <<", ", count_tag, ": ", NumStr(n), ", ", Upper(name), ": ", ValStr(value)>>

\* METRICS_META[msg] = value: a dict keeps the position of a key it already holds
MetaPut(meta, key, value) ==
    IF \E j \in 1..Len(meta) : meta[j][1] = key
    THEN [j \in 1..Len(meta) |-> IF meta[j][1] = key THEN <<key, value>> ELSE meta[j]]
    ELSE Append(meta, <<key, value>>)

\* _logging_msg(value, name, n)
IsUnavailable(out) == out = NoneNone
logging_msg(meta, count_tag, tp, sp, out, name) ==
    IF IsUnavailable(out) THEN meta
    ELSE MetaPut(meta, LabelKey(count_tag, tp, sp, out[1], name, out[2]), out[1])

\* one call _logging_msg(value, name, n) of a comparison: what was compared, what
\* the computation returned, and the message under which it was recorded (empty
\* when the call returned without recording)
LoggingCall(medium, count_tag, tp, sp, out, name) ==
    [name |-> name, medium |-> medium, true_path |-> tp, test_path |-> sp, out |-> out,
     msg |-> IF IsUnavailable(out) THEN <<>>
             ELSE LabelKey(count_tag, tp, sp, out[1], name, out[2])]

\* the loops of lines 615-621, 660-666, 669-676 move on to the next call, or
\* leave the loops when the last call is over
NextCall ==
    /\ step_idx' = 1
    /\ IF target_idx < Len(targets)
       THEN /\ target_idx' = target_idx + 1
            /\ metric_idx' = metric_idx
            /\ pc_run' = "img_enter"
       ELSE IF metric_idx < Len(args.metrics)
       THEN /\ target_idx' = 1
            /\ metric_idx' = metric_idx + 1
            /\ pc_run' = "img_enter"
       ELSE /\ target_idx' = target_idx
            /\ metric_idx' = metric_idx
            /\ pc_run' = "loops_done"

Comparison(medium, tp, sp) ==
    [idx |-> metric_idx, metric |-> CallMetric, medium |-> medium,
     true_path |-> tp, test_path |-> sp]

\* lines 503-513: the image part of _run_metric is entered, skipped, or returns
ImageEnter ==
    /\ pc_run = "img_enter"
    /\ IF CallImgTrue # None /\ CallImgTest # None
       THEN /\ io' = io \cup {"exists"}
            /\ IF ~exists(CallImgTrue) \/ ~exists(CallImgTest)
               THEN /\ NextCall
                    /\ calls' = calls
               ELSE /\ calls' = Append(calls, Comparison("img", CallImgTrue, CallImgTest))
                    /\ pc_run' = "img_compute"
                    /\ step_idx' = 1
                    /\ UNCHANGED <<metric_idx, target_idx>>
       ELSE /\ pc_run' = "video_enter"
            /\ UNCHANGED <<io, calls, metric_idx, target_idx, step_idx>>
    /\ UNCHANGED <<args, img_source_items, video_source_files, FID, mode, targets,
                   METRICS_META, errors, rendered, exc, log_calls>>
    /\ UNCHANGED callVars

\* lines 525-536: one metric of the image part is computed and recorded
ImageCompute ==
    /\ pc_run = "img_compute"
    /\ LET name == Applicable(CallMetric)[step_idx]
       IN  IF ImageRaises(name, CallImgTrue, CallImgTest)
           THEN /\ Raise("ScoringError")
                /\ UNCHANGED <<METRICS_META, step_idx, log_calls>>
           ELSE /\ \E out \in ImageOutcomes(name, CallImgTrue, CallImgTest) :
                    /\ METRICS_META' =
                        logging_msg(METRICS_META, "Num", CallImgTrue, CallImgTest, out, name)
                    /\ log_calls' = log_calls \cup
                        {LoggingCall("img", "Num", CallImgTrue, CallImgTest, out, name)}
                /\ IF step_idx < Len(Applicable(CallMetric))
                   THEN /\ step_idx' = step_idx + 1
                        /\ pc_run' = pc_run
                   ELSE /\ step_idx' = 1
                        /\ pc_run' = "video_enter"
                /\ exc' = exc
    /\ io' = io \cup {"compute"}
    /\ UNCHANGED <<args, img_source_items, video_source_files, FID, mode, targets,
                   metric_idx, target_idx, calls, errors, rendered>>
    /\ UNCHANGED callVars

\* lines 538-549: the video part of _run_metric is entered, skipped, or returns
VideoEnter ==
    /\ pc_run = "video_enter"
    /\ IF CallVideoTrue # None /\ CallVideoTest # None
       THEN /\ io' = io \cup {"exists"}
            /\ IF ~exists(CallVideoTrue) \/ ~exists(CallVideoTest)
               THEN /\ NextCall
                    /\ calls' = calls
               ELSE /\ calls' = Append(calls, Comparison("video", CallVideoTrue, CallVideoTest))
                    /\ pc_run' = "video_compute"
                    /\ step_idx' = 1
                    /\ UNCHANGED <<metric_idx, target_idx>>
       ELSE /\ NextCall
            /\ UNCHANGED <<io, calls>>
    /\ UNCHANGED <<args, img_source_items, video_source_files, FID, mode, targets,
                   METRICS_META, errors, rendered, exc, log_calls>>
    /\ UNCHANGED callVars

\* lines 561-572: one metric of the video part is computed and recorded
VideoCompute ==
    /\ pc_run = "video_compute"
    /\ LET name == Applicable(CallMetric)[step_idx]
       IN  IF VideoRaises(name, CallVideoTrue, CallVideoTest)
           THEN /\ Raise("ValueError: video_true and video_test must be files or dirs.")
                /\ UNCHANGED <<METRICS_META, step_idx, metric_idx, target_idx, log_calls>>
           ELSE /\ \E out \in VideoOutcomes(name, CallVideoTrue, CallVideoTest) :
                    /\ METRICS_META' =
                        logging_msg(METRICS_META, "Frames", CallVideoTrue, CallVideoTest,
                                    out, name)
                    /\ log_calls' = log_calls \cup
                        {LoggingCall("video", "Frames", CallVideoTrue, CallVideoTest,
                                     out, name)}
                /\ IF step_idx < Len(Applicable(CallMetric))
                   THEN /\ step_idx' = step_idx + 1
                        /\ pc_run' = pc_run
                        /\ UNCHANGED <<metric_idx, target_idx>>
                   ELSE NextCall
                /\ exc' = exc
    /\ io' = io \cup {"compute"}
    /\ UNCHANGED <<args, img_source_items, video_source_files, FID, mode, targets,
                   calls, errors, rendered>>
    /\ UNCHANGED callVars

(* -------------------------------- summary ------------------------------ *)
\* line 678, `if args.summary:`, with --summary given or not
AfterLoops ==
    /\ pc_run = "loops_done"
    /\ \E summary \in BOOLEAN :
        pc_run' = IF summary THEN "summary" ELSE "exit"
    /\ UNCHANGED <<args, img_source_items, video_source_files, FID, io, mode, targets,
                   metric_idx, target_idx, step_idx, METRICS_META, calls, errors,
                   rendered, exc, log_calls>>
    /\ UNCHANGED callVars

CommaTokens == {",", ", "}
VsTokens == {"vs", " vs "}
ColonTokens == {":", ": "}

\* re.IGNORECASE on the tags that are searched for
Lower(tok) ==
    CASE tok \in {"Num", "NUM", "num"} -> "num"
      [] tok \in {"Frames", "FRAMES", "frames"} -> "frames"
      [] OTHER -> tok

Positions(text, toks) == {j \in 1..Len(text) : text[j] \in toks}
FirstOf(S, otherwise) == IF S = {} THEN otherwise ELSE CHOOSE j \in S : \A h \in S : j <= h

\* _parse_value(text, tag) for the tags "Num" and "Frames": the first place where
\* the tag is followed by a colon and digits; int() of "d.ddd" raises and gives None.
\* The result is {} for None, or the set of the one number.
NumberTokens == Elements(Digits) \cup {"0.00000", "1.00000", "2.00000", "3.00000"}
parse_value(text, tag) ==
    LET hits == {j \in 1..(Len(text) - 2) :
                    /\ Lower(text[j]) = Lower(tag)
                    /\ text[j + 1] \in ColonTokens
                    /\ text[j + 2] \in NumberTokens}
    IN  IF hits = {} THEN {}
        ELSE LET value_str == text[FirstOf(hits, 0) + 2]
             IN  IF value_str \in Elements(Digits)
                 THEN {CHOOSE n \in 0..9 : NumStr(n) = value_str}
                 ELSE {}

\* key.split(",")[0].strip()
header(key) == SubSeq(key, 1, FirstOf(Positions(key, CommaTokens), Len(key) + 1) - 1)

\* header.split("vs")[1].strip()
compare_tag(key) ==
    LET h == header(key)
        first == FirstOf(Positions(h, VsTokens), 0)
        later == {j \in Positions(h, VsTokens) : j > first}
    IN  SubSeq(h, first + 1, FirstOf(later, Len(h) + 1) - 1)

\* `if n := ...`: None and 0 are false
Truthy(parsed) == parsed # {} /\ parsed # {0}
TheNumber(parsed) == CHOOSE n \in parsed : TRUE

\* _format_item(key, metric, value, max_key_len): the row, or the exception
format_item(key, metric, value) ==
    LET common == [key |-> key, header |-> header(key), compare_tag |-> compare_tag(key),
                   metric |-> Upper(metric), value |-> value]
    IN  IF Positions(header(key), VsTokens) = {}
        THEN [common EXCEPT !.metric = "IndexError"] @@ [count_tag |-> "raise", n |-> 0]
        ELSE IF Truthy(parse_value(key, "Num"))
        THEN common @@ [count_tag |-> "Num", n |-> TheNumber(parse_value(key, "Num"))]
        ELSE IF Truthy(parse_value(key, "Frames"))
        THEN common @@ [count_tag |-> "Frames", n |-> TheNumber(parse_value(key, "Frames"))]
        ELSE [common EXCEPT !.metric = "ValueError: Num or Frames can not be NoneType."]
                 @@ [count_tag |-> "raise", n |-> 0]

\* reverse = True if metric.lower() in ["psnr", "ssim"] else False
ReverseNever(metric) == FALSE
Reverse(metric) == metric \in {"psnr", "ssim"}

\* sorted(items, key=lambda x: x[1], reverse=reverse): stable in both directions
Precedes(a, b, reverse) == IF reverse THEN a[2] > b[2] ELSE a[2] < b[2]
InsertSorted(s, x, reverse) ==
    LET p == Cardinality({j \in 1..Len(s) : ~Precedes(x, s[j], reverse)})
    IN  SubSeq(s, 1, p) \o <<x>> \o SubSeq(s, p + 1, Len(s))
RECURSIVE sorted(_, _)
sorted(items, reverse) ==
    IF items = <<>> THEN <<>>
    ELSE InsertSorted(sorted(SubSeq(items, 1, Len(items) - 1), reverse),
                      items[Len(items)], reverse)

\* lines 794-797
selected_metrics ==
    IF "all" \in Elements(args.metrics)
    THEN <<"psnr", "ssim", "mse", "fid">>
    ELSE args.metrics

\* if metric.upper() in key or metric.lower() in key
KeyNames(key, metric) == \E j \in 1..Len(key) : key[j] \in {Upper(metric), metric}

\* lines 799-832: the block of one selected metric
SummaryBlock ==
    /\ pc_run = "summary"
    /\ LET metric == selected_metrics[step_idx]
           Selected(item) == KeyNames(item[1], metric)
           selected_items == SelectSeq(METRICS_META, Selected)
           sorted_items == sorted(selected_items, Reverse(metric))
           format_strs == [j \in 1..Len(sorted_items) |->
                              format_item(sorted_items[j][1], metric, sorted_items[j][2])]
           failed == {j \in 1..Len(format_strs) : format_strs[j].count_tag = "raise"}
       IN  IF Len(selected_items) = 0
           THEN /\ Raise("ValueError: max() arg is an empty sequence")
                /\ UNCHANGED <<rendered, step_idx>>
           ELSE IF failed # {}
           THEN /\ Raise(format_strs[FirstOf(failed, 0)].metric)
                /\ UNCHANGED <<rendered, step_idx>>
           ELSE /\ rendered' = Append(rendered, [metric |-> metric, rows |-> format_strs])
                /\ IF step_idx < Len(selected_metrics)
                   THEN /\ step_idx' = step_idx + 1
                        /\ pc_run' = pc_run
                   ELSE /\ step_idx' = step_idx
                        /\ pc_run' = "exit"
                /\ exc' = exc
    /\ UNCHANGED <<args, img_source_items, video_source_files, FID, io, mode, targets,
                   metric_idx, target_idx, METRICS_META, calls, errors, log_calls>>
    /\ UNCHANGED callVars

NextRun ==
    \/ RunStart
    \/ RunDispatch
    \/ ImageEnter
    \/ ImageCompute
    \/ VideoEnter
    \/ VideoCompute
    \/ AfterLoops
    \/ SummaryBlock

SpecRun == InitRun /\ [][NextRun]_vars

(* ====================== properties of Spec ============================= *)
RECURSIVE SumOver(_, _)
SumOver(S, f) ==
    IF S = {} THEN 0
    ELSE LET x == CHOOSE y \in S : TRUE IN f[x] + SumOver(S \ {x}, f)

\* n: the scores the scoring function produced; k: those equal to +inf
ScoredN == SumOver(Scores, scored)
ScoredK == scored[PosInf]
FiniteSum == SumOver(FiniteScores, [s \in FiniteScores |-> s * scored[s]])

\* C1: of n scores produced during a call, k of them +inf and k < n, the returned
\* mean is the sum of the n - k finite scores divided by n - k, and the returned
\* count is n - k.
C1_MeanOverFiniteScores ==
    (pc = "done" /\ ScoredK < ScoredN) =>
        /\ result # NoneNone
        /\ result[2] = ScoredN - ScoredK
        /\ result[1].num * (ScoredN - ScoredK) = FiniteSum * result[1].den

C1_Witness ==
    /\ pc = "done"
    /\ true_kind = "dir"
    /\ ScoredK >= 1
    /\ ScoredN - ScoredK >= 2
    /\ FiniteSum > 0
    /\ result # NoneNone

\* C2: when every score of the comparison is +inf, the call returns (None, None),
\* in every mode (in-memory unit, single file, directory, video, video directory).
C2_AllInfiniteGivesNone ==
    (pc = "done" /\ ScoredK = ScoredN) => result = NoneNone

\* C3: the selection holds exactly the pairs (T[j], S[j]), in index order, of the
\* positions j <= min(|T|, |S|) walked so far whose basenames are equal.
NameOf(p) == p[2]
MatchIdx(upto) == {j \in 1..upto : NameOf(true_files[j]) = NameOf(test_files[j])}
Rank(j, upto) == Cardinality({k \in MatchIdx(upto) : k <= j})
Walked ==
    IF pc = "call" THEN 0
    ELSE IF pc = "select" THEN i
    ELSE Min(Len(true_files), Len(test_files))

C3_PairMatcher ==
    /\ Len(true_selected) = Cardinality(MatchIdx(Walked))
    /\ Len(test_selected) = Len(true_selected)
    /\ Len(true_selected) <= Min(Len(true_files), Len(test_files))
    /\ \A j \in MatchIdx(Walked) :
        /\ true_selected[Rank(j, Walked)] = true_files[j]
        /\ test_selected[Rank(j, Walked)] = test_files[j]
    /\ \A k \in 1..Len(true_selected) : NameOf(true_selected[k]) = NameOf(test_selected[k])

\* a mismatch in the middle, a match after it, and a longer list on one side
C3_Witness ==
    /\ pc \notin {"call", "select"}
    /\ Len(true_selected) >= 1
    /\ Len(true_selected) < Min(Len(true_files), Len(test_files))
    /\ Len(true_files) # Len(test_files)
    /\ \E j \in 1..(Len(true_files) - 1) :
        j \notin MatchIdx(Walked) /\ (j + 1) \in MatchIdx(Walked)

\* C4: for a single video pair, the number of frame pairs the extractor returns
\* never exceeds min of the two frame counts the decoders report.
C4_FramesWithinReportedCount ==
    (fn = "compute_video_metric" /\ true_kind = "file" /\ pc = "check") =>
        valid_frames <= Min(cap1.total, cap2.total)

\* C10: every decoder opened by the extractor is released when it returns, also
\* when a decoder fails to open; no decoder is open between pairs and at most
\* two are open at any time.
C10_DecodersReleased ==
    /\ open_handles <= 2
    /\ pc # "fetch_read" => open_handles = 0

(* ====================== properties of SpecRun ========================== *)
CallsOf(j, medium, sp) ==
    {c \in 1..Len(calls) :
        calls[c].idx = j /\ calls[c].medium = medium /\ calls[c].test_path = sp}

\* C5: in 1-vs-N image mode with reference directory R, every requested metric
\* runs exactly one comparison R vs D for each immediate sub-directory D of the
\* source directory whose basename differs from basename(R), and none for any
\* other entry.
C5_OneComparisonPerOtherDirectory ==
    (/\ pc_run \in {"loops_done", "summary", "exit"}
     /\ is_image_1vsN_pattern
     /\ args.img_source_dir.kind = "dir"
     /\ args.ref_img_dir.kind = "dir") =>
        /\ \A j \in 1..Len(args.metrics) : \A item \in img_source_items :
            Cardinality(CallsOf(j, "img", item)) =
                IF item.kind = "dir" /\ item.base # args.ref_img_dir.base THEN 1 ELSE 0
        /\ \A c \in 1..Len(calls) :
            /\ calls[c].medium = "img"
            /\ calls[c].true_path = args.ref_img_dir
            /\ calls[c].test_path \in img_source_items

\* the source directory holds R, X, Y and a plain file; two metrics were asked for
C5_Witness ==
    /\ pc_run = "exit"
    /\ is_image_1vsN_pattern
    /\ args.ref_img_dir = Path("dir", "S/", <<"R">>)
    /\ img_source_items = ItemUniverse
    /\ Len(args.metrics) = 2
    /\ Len(calls) = 4

\* C6: when both 1-vs-N patterns are requested the run is rejected before any
\* computation or file access: no collaborator constructed, no directory listed,
\* no metric computed.
C6_RejectedBeforeAnyWork ==
    exc = "AssertionError" =>
        /\ ~FID
        /\ io = {}
        /\ calls = <<>>
        /\ METRICS_META = <<>>

\* C7: the rows of every summary block are sorted by value, non-increasing for
\* psnr and ssim and non-decreasing for every other metric.
C7_SummarySorted ==
    \A b \in 1..Len(rendered) :
        LET rows == rendered[b].rows
        IN  \A j \in 1..(Len(rows) - 1) :
                IF rendered[b].metric \in {"psnr", "ssim"}
                THEN rows[j].value >= rows[j + 1].value
                ELSE rows[j].value <= rows[j + 1].value

\* a psnr block and an mse block, two rows each, recorded in the opposite order
C7_Witness ==
    /\ Len(rendered) = 2
    /\ rendered[1].metric = "psnr" /\ rendered[2].metric = "mse"
    /\ Len(rendered[1].rows) = 2 /\ Len(rendered[2].rows) = 2
    /\ rendered[1].rows[1].value > rendered[1].rows[2].value
    /\ rendered[2].rows[1].value < rendered[2].rows[2].value
    /\ Len(METRICS_META) = 4
    /\ METRICS_META[1][2] < METRICS_META[2][2]
    /\ METRICS_META[3][2] > METRICS_META[4][2]

GivenPair(a, b) == a # None /\ b # None

\* C8: in single-comparison mode an absent input skips only the comparison that
\* uses it, with an error logged: the comparison of the other medium is still
\* computed for every requested metric.
C8_AbsentInputSkipsOnlyItsComparison ==
    (mode = "single" /\ pc_run \in {"loops_done", "summary", "exit"}) =>
        /\ (GivenPair(args.video_true, args.video_test)
                /\ exists(args.video_true) /\ exists(args.video_test)) =>
            \A j \in 1..Len(args.metrics) : CallsOf(j, "video", args.video_test) # {}
        /\ (GivenPair(args.img_true, args.img_test)
                /\ exists(args.img_true) /\ exists(args.img_test)) =>
            \A j \in 1..Len(args.metrics) : CallsOf(j, "img", args.img_test) # {}
        /\ (\/ GivenPair(args.img_true, args.img_test)
                 /\ (~exists(args.img_true) \/ ~exists(args.img_test))
            \/ GivenPair(args.video_true, args.video_test)
                 /\ (~exists(args.video_true) \/ ~exists(args.video_test))) =>
            errors > 0

\* C9: a run ends abnormally only when both 1-vs-N modes are requested, when an
\* input is not of the kind (file or directory) the comparison needs, or when a
\* label carries neither a Num nor a Frames count.
C9_AbnormalEndOnlyForConfigOrLabel ==
    pc_run = "crashed" =>
        exc \in {"AssertionError", "NotADirectoryError", "ScoringError",
                 "ValueError: video_true and video_test must be files or dirs.",
                 "ValueError: Num or Frames can not be NoneType."}

\* the _logging_msg calls that had a value to record, and the (metric, target)
\* combination of a call
Available == {c \in log_calls : c.out # NoneNone}
Combination(c) == <<c.name, c.medium, c.test_path>>
Keys == {METRICS_META[j][1] : j \in 1..Len(METRICS_META)}

\* C11: the result mapping holds one result for each (metric, target) combination
\* whose comparison produced an available value: two distinct combinations never
\* share a label key, so no recorded result is overwritten by another's, also in
\* 1-vs-N video mode with targets that share a basename across sub-directories.
C11_OneResultPerCombination ==
    /\ \A c, d \in Available : c.msg = d.msg => Combination(c) = Combination(d)
    /\ Cardinality({Combination(c) : c \in Available}) <= Len(METRICS_META)

\* C12: the summary block of metric M holds a row for a recorded result exactly
\* when that result was computed for M: no result of another metric appears in
\* the block and none of M is missing, whatever the basenames of the compared
\* paths (also basenames that hold a metric name).
C12_BlockHoldsItsMetricOnly ==
    \A b \in 1..Len(rendered) :
        {rendered[b].rows[j].key : j \in 1..Len(rendered[b].rows)} =
            {c.msg : c \in {d \in Available : d.name = rendered[b].metric}}

\* C13: for every recorded result the summary formats, the compare-target token
\* it extracts from the label (the text after "vs" in the first comma-delimited
\* segment) is the basename of the test-side path of that comparison, whatever
\* the two basenames are (also with the letters "vs" or a comma in them).
C13_CompareTagIsTestBasename ==
    \A b \in 1..Len(rendered) : \A j \in 1..Len(rendered[b].rows) :
        \A c \in Available :
            c.msg = rendered[b].rows[j].key =>
                rendered[b].rows[j].compare_tag = PathBasename(c.test_path)

\* C14: every entry of the result mapping has a numeric value and a label with a
\* sample count of at least 1; a comparison whose aggregation returned
\* (None, None) is never recorded, so the summary never ranks or formats it.
C14_OnlyAvailableResultsRecorded ==
    /\ \A j \in 1..Len(METRICS_META) :
        /\ METRICS_META[j][2] \in Nat
        /\ \E c \in Available : c.msg = METRICS_META[j][1] /\ c.out[1] = METRICS_META[j][2]
        /\ \A c \in Available : c.msg = METRICS_META[j][1] => c.out[2] >= 1
    /\ Len(METRICS_META) <= Cardinality(Available)
    /\ \A b \in 1..Len(rendered) : \A j \in 1..Len(rendered[b].rows) :
        /\ rendered[b].rows[j].n >= 1
        /\ rendered[b].rows[j].key \in Keys

\* psnr is asked for twice on two directories: one aggregation finds nothing
\* valid, the other is recorded and then formatted by the summary
C14_Witness ==
    /\ pc_run = "exit"
    /\ \E c \in log_calls : c.out = NoneNone /\ c.name = "psnr" /\ c.medium = "img"
    /\ \E c \in Available : c.name = "psnr" /\ c.medium = "img"
    /\ Len(METRICS_META) = 1
    /\ Len(rendered) = 1
    /\ Len(rendered[1].rows) = 1

====
